---- MODULE Spec2Model ----
(***************************************************************************)
(* Client-side session and request orchestration of the Dublin rent       *)
(* predictor front end: the AuthProvider context (bootstrap, fetchUser,    *)
(* login, signup, logout) and the prediction page (handlePredict,          *)
(* handleTabChange), the health indicator of the navigation bar, the       *)
(* model information display and the search history page.                  *)
(* Every handler is cut at its awaits: the code that                       *)
(* runs between two suspension points is one atomic action, and a request  *)
(* in flight is a record holding what its continuation closed over.        *)
(***************************************************************************)
EXTENDS Integers, Sequences, FiniteSets, Bags, TLC

----------------------------------------------------------------------------
(* Values *)

\* JavaScript null for string-valued state (user, token, storage entry, route).
NULL == "null"

\* The empty string of an unset form field.
EMPTY == ""

\* Bearer credentials the identity service can hand out or a store can hold.
Tokens == {"t1", "t2"}

\* The identity GET /users/me returns for a credential (response.data).
IdentityOf(t) == IF t = "t1" THEN "alice@example.com" ELSE "bob@example.com"

\* The Authorization header value built from a credential: `Bearer ${t}`.
Bearer(t) == <<"Bearer", t>>

\* An absent Authorization header.
NoHeader == <<>>

\* Bounds of the model.
MaxPending == 2
MaxPredInflight == 2

\* Optional values that are not strings: null is the empty sequence.
Null == <<>>
Some(x) == <<x>>

VARIABLES
  \* AuthProvider state
  user,          \* useState<User | null>
  token,         \* useState<string | null>
  isLoading,     \* useState(true)
  \* the environment the provider writes to
  ls,            \* localStorage["accessToken"], NULL when the key is absent
  axiosAuth,     \* axios.defaults.headers.common["Authorization"]
  route,         \* the location after the last router.push
  booted,        \* the mount effect has run
  pending,       \* bag of identity-service requests in flight, with their continuations
  \* what the last step did, as its caller and the router saw it
  lastOp,        \* name of the last handler segment that ran
  pushed,        \* the router.push of the last step, NULL when it made none
  raised,        \* the error the last step re-threw to its caller, NULL when none
  effects,       \* the state updates, store and header writes and router.push of the last step, in order
  \* history the claims speak about
  sinceLogout,   \* a logout has run and no login has stored a credential since
  bootHist,      \* "fresh" | "rejected" | "rebooted"
  rejected,      \* the credential GET /users/me last rejected, NULL once a login stored one
  \* PredictionPage state
  activeFormType, bedrooms, bathrooms, propertyType, dublinArea, roomType,
  predictedPrice, predLoading, submittedDetails,
  predInflight,  \* POST /predict requests in flight
  dropped,       \* the price handleTabChange took off the display in the last step of the page
  \* HealthIndicator state
  healthStatus,  \* useState<HealthStatus | null>
  healthLoading, \* useState(true)
  healthPhase,   \* "unmounted" | "mounted" | "torndown"
  healthInflight,\* the checks in flight, by their number in order of issue
  healthIssued,  \* number of checks issued so far
  healthTicks,   \* number of times the interval timer has fired
  healthShown,   \* the number of the check whose answer healthStatus holds, 0 when none
  healthFailed,  \* the greatest number of a check whose failure was processed, 0 when none
  healthPrev,    \* the healthStatus the last step of the indicator replaced
  \* ModelInfoDisplay state
  activeModelType, modelInfo, infoError,
  infoMounted,   \* the component is mounted
  infoInflight,  \* GET /model-info requests in flight, each with the variant it asked for
  infoLast,      \* the variant of the request whose answer the last step processed, NULL when none
  featureBars,   \* the feature rows of the last render, empty when it showed none
  \* SearchHistoryPage state
  histMounted,   \* the page is mounted
  historyItems, histLoading, histError,
  histInflight   \* bag of GET /users/me/search-history requests in flight, each with its token

authVars == <<user, token, isLoading, ls, axiosAuth, route, booted, pending,
              lastOp, pushed, raised, effects, sinceLogout, bootHist, rejected>>
formVars == <<activeFormType, bedrooms, bathrooms, propertyType, dublinArea, roomType>>
predVars == <<activeFormType, bedrooms, bathrooms, propertyType, dublinArea, roomType,
              predictedPrice, predLoading, submittedDetails, predInflight, dropped>>
sessionVars == <<user, token, isLoading, ls, axiosAuth, route, booted, pending,
                 sinceLogout, bootHist, rejected>>
healthVars == <<healthStatus, healthLoading, healthPhase, healthInflight, healthIssued,
                healthTicks, healthShown, healthFailed, healthPrev>>
infoVars == <<activeModelType, modelInfo, infoError, infoMounted, infoInflight, infoLast,
              featureBars>>
histVars == <<histMounted, historyItems, histLoading, histError, histInflight>>
vars == <<authVars, predVars, healthVars, infoVars, histVars>>

----------------------------------------------------------------------------
(* Sequences of requests in flight *)

RemoveAt(s, i) == SubSeq(s, 1, i - 1) \o SubSeq(s, i + 1, Len(s))

\* Requests of the identity service are answered in any order: a bag of them.
Issue(b, r) == b (+) SetToBag({r})

Answer(b, r) == b (-) SetToBag({r})

\* A request of the identity service in flight.  kind: "login" | "signup" | "me";
\* tok: the credential fetchUser was called with; nav: its continuation is
\* login's, which ends with router.push("/"); auth: the Authorization header the
\* request carries, its own for GET /users/me and the axios default otherwise;
\* afterLogout: it was issued while sinceLogout held.
Req(kind, tok, nav) ==
  [kind |-> kind, tok |-> tok, nav |-> nav,
   auth |-> IF kind = "me" THEN Bearer(tok) ELSE axiosAuth,
   afterLogout |-> IF kind = "me" THEN FALSE ELSE sinceLogout]

----------------------------------------------------------------------------
(* SearchHistoryPage: state and effect.  The effect depends on the user, the *)
(* token and the loading flag of the AuthProvider, so it runs in the render  *)
(* that follows every step which changes one of them.                        *)

\* setError("Please log in to view your search history.")
PleaseLogIn == "Please log in to view your search history."

\* Bounds of the model: history requests in flight, and identity requests in
\* flight beside the page.
MaxHistInflight == 2
MaxHistPending == 1

\* State after construction of the page: the three useState initial values.
InitHistory ==
  /\ histMounted = FALSE
  /\ historyItems = <<>>
  /\ histLoading = TRUE
  /\ histError = NULL
  /\ histInflight = EmptyBag

\* The state of the page the effect writes, as one record.
HistRec == [historyItems |-> historyItems, histLoading |-> histLoading,
            histError |-> histError, histInflight |-> histInflight]

\* The same record for a page just constructed.
FreshHistRec == [historyItems |-> <<>>, histLoading |-> TRUE,
                 histError |-> NULL, histInflight |-> EmptyBag]

\* LoadHistoryEffect without the early return on authLoading.
LoadHistoryEffectNoGate(h, u, t, l) ==
  IF u = NULL \/ t = NULL
    THEN [h EXCEPT !.histError = PleaseLogIn, !.histLoading = FALSE]
    ELSE [h EXCEPT !.histLoading = TRUE, !.histError = NULL,
                   !.histInflight = Issue(@, [tok |-> t])]

\* The body of the effect for user u, token t and authLoading l: return while
\* auth is loading; without a user or a token set the log-in error and clear the
\* page's loading flag; otherwise run loadHistory up to its await.
LoadHistoryEffect(h, u, t, l) ==
  IF l
    THEN h
    ELSE IF u = NULL \/ t = NULL
      THEN [h EXCEPT !.histError = PleaseLogIn, !.histLoading = FALSE]
      ELSE [h EXCEPT !.histLoading = TRUE, !.histError = NULL,
                     !.histInflight = Issue(@, [tok |-> t])]

\* The page takes the record h as its state.
SetHistRec(h) ==
  /\ BagCardinality(h.histInflight) <= MaxHistInflight
  /\ historyItems' = h.historyItems
  /\ histLoading' = h.histLoading
  /\ histError' = h.histError
  /\ histInflight' = h.histInflight

\* The render after a step of the AuthProvider: the effect runs again when the
\* page is mounted and one of its dependencies [user, token, authLoading] changed.
HistoryEffect ==
  /\ histMounted' = histMounted
  /\ IF histMounted /\ <<user', token', isLoading'>> # <<user, token, isLoading>>
       THEN SetHistRec(LoadHistoryEffect(HistRec, user', token', isLoading'))
       ELSE UNCHANGED <<historyItems, histLoading, histError, histInflight>>

----------------------------------------------------------------------------
(* AuthProvider *)

\* State after construction: the three useState initial values; nothing attached,
\* nothing in flight.  The store holds whatever an earlier session left.
InitAuth ==
  /\ user = NULL
  /\ token = NULL
  /\ isLoading = TRUE
  /\ ls \in Tokens \cup {NULL}
  /\ axiosAuth = NoHeader
  /\ route \in {"/", "/login"}
  /\ booted = FALSE
  /\ pending = EmptyBag
  /\ lastOp = "init"
  /\ effects = <<>>
  /\ pushed = NULL
  /\ raised = NULL
  /\ sinceLogout = FALSE
  /\ bootHist = "fresh"
  /\ rejected = NULL

\* The mount effect: read the store; with a credential set it, attach it and start
\* fetchUser(storedToken) up to its await; without one clear the loading flag.
Bootstrap ==
  /\ ~booted
  /\ booted' = TRUE
  /\ IF ls # NULL
       THEN /\ token' = ls
            /\ axiosAuth' = Bearer(ls)
            /\ pending' = Issue(pending, Req("me", ls, FALSE))
            /\ isLoading' = isLoading
       ELSE /\ isLoading' = FALSE
            /\ UNCHANGED <<token, axiosAuth, pending>>
  /\ lastOp' = "bootstrap"
  /\ effects' = IF ls # NULL THEN <<"setToken", "setHeader">> ELSE <<"setIsLoading">>
  /\ pushed' = NULL
  /\ raised' = NULL
  /\ bootHist' = IF bootHist = "rejected" THEN "rebooted" ELSE bootHist
  /\ UNCHANGED <<user, ls, route, sinceLogout, rejected>>
  /\ UNCHANGED predVars
  /\ UNCHANGED <<healthVars, infoVars>>
  /\ HistoryEffect

\* Errors a failed call of the identity service raises: an HTTP error whose body
\* has a `detail`, or a transport failure with only a message.
Errors == {"detail", "network"}

\* login up to its await: set the loading flag and POST /login.
LoginCall ==
  /\ booted
  /\ BagCardinality(pending) < MaxPending
  /\ isLoading' = TRUE
  /\ pending' = Issue(pending, Req("login", NULL, FALSE))
  /\ lastOp' = "login"
  /\ effects' = <<"setIsLoading">>
  /\ pushed' = NULL
  /\ raised' = NULL
  /\ UNCHANGED <<user, token, ls, axiosAuth, route, booted, sinceLogout, bootHist, rejected>>
  /\ UNCHANGED predVars
  /\ UNCHANGED <<healthVars, infoVars>>
  /\ HistoryEffect

\* LoginOk with router.push("/") moved before the await of fetchUser.
LoginOkPushesEarly(r, t) ==
  /\ r.kind = "login"
  /\ token' = t
  /\ ls' = t
  /\ axiosAuth' = Bearer(t)
  /\ pending' = Issue(Answer(pending, r), Req("me", t, TRUE))
  /\ lastOp' = "loginOk"
  /\ effects' = <<"setToken", "setItem", "setHeader", "push">>
  /\ pushed' = "/"
  /\ route' = "/"
  /\ raised' = NULL
  /\ sinceLogout' = FALSE
  /\ bootHist' = "fresh"
  /\ rejected' = NULL
  /\ UNCHANGED <<user, isLoading, booted>>
  /\ UNCHANGED predVars
  /\ UNCHANGED <<healthVars, infoVars>>
  /\ HistoryEffect

\* LoginOk without the localStorage.setItem.
LoginOkSkipsStore(r, t) ==
  /\ r.kind = "login"
  /\ token' = t
  /\ ls' = ls
  /\ axiosAuth' = Bearer(t)
  /\ pending' = Issue(Answer(pending, r), Req("me", t, TRUE))
  /\ lastOp' = "loginOk"
  /\ effects' = <<"setToken", "setHeader">>
  /\ pushed' = NULL
  /\ raised' = NULL
  /\ sinceLogout' = FALSE
  /\ bootHist' = "fresh"
  /\ rejected' = NULL
  /\ UNCHANGED <<user, isLoading, route, booted>>
  /\ UNCHANGED predVars
  /\ UNCHANGED <<healthVars, infoVars>>
  /\ HistoryEffect

\* POST /login answered with an access_token: store it in memory and in the store,
\* attach it, and run fetchUser(new_token) up to its await.
LoginOk(r, t) ==
  /\ r.kind = "login"
  /\ token' = t
  /\ ls' = t
  /\ axiosAuth' = Bearer(t)
  /\ pending' = Issue(Answer(pending, r), Req("me", t, TRUE))
  /\ lastOp' = "loginOk"
  /\ effects' = <<"setToken", "setItem", "setHeader">>
  /\ pushed' = NULL
  /\ raised' = NULL
  /\ sinceLogout' = FALSE
  /\ bootHist' = "fresh"
  /\ rejected' = NULL
  /\ UNCHANGED <<user, isLoading, route, booted>>
  /\ UNCHANGED predVars
  /\ UNCHANGED <<healthVars, infoVars>>
  /\ HistoryEffect

\* LoginFail without the `throw error` of the catch.
LoginFailSwallows(r, e) ==
  /\ r.kind = "login"
  /\ pending' = Answer(pending, r)
  /\ isLoading' = FALSE
  /\ lastOp' = "loginFail"
  /\ effects' = <<"setIsLoading">>
  /\ pushed' = NULL
  /\ raised' = NULL
  /\ UNCHANGED <<user, token, ls, axiosAuth, route, booted, sinceLogout, bootHist, rejected>>
  /\ UNCHANGED predVars
  /\ UNCHANGED <<healthVars, infoVars>>
  /\ HistoryEffect

\* POST /login failed: the catch clears the loading flag and re-throws.
LoginFail(r, e) ==
  /\ r.kind = "login"
  /\ pending' = Answer(pending, r)
  /\ isLoading' = FALSE
  /\ lastOp' = "loginFail"
  /\ effects' = <<"setIsLoading">>
  /\ pushed' = NULL
  /\ raised' = e
  /\ UNCHANGED <<user, token, ls, axiosAuth, route, booted, sinceLogout, bootHist, rejected>>
  /\ UNCHANGED predVars
  /\ UNCHANGED <<healthVars, infoVars>>
  /\ HistoryEffect

\* GET /users/me answered: setUser(response.data), then setIsLoading(false); when
\* the caller is login, its await returns and it pushes "/".
MeOk(r) ==
  /\ r.kind = "me"
  /\ pending' = Answer(pending, r)
  /\ user' = IdentityOf(r.tok)
  /\ isLoading' = FALSE
  /\ route' = IF r.nav THEN "/" ELSE route
  /\ pushed' = IF r.nav THEN "/" ELSE NULL
  /\ lastOp' = "meOk"
  /\ effects' = <<"setUser", "setIsLoading">> \o (IF r.nav THEN <<"push">> ELSE <<>>)
  /\ raised' = NULL
  /\ UNCHANGED <<token, ls, axiosAuth, booted, sinceLogout, bootHist, rejected>>
  /\ UNCHANGED predVars
  /\ UNCHANGED <<healthVars, infoVars>>
  /\ HistoryEffect

\* MeFail without the localStorage.removeItem of the catch.
MeFailKeepsStore(r) ==
  /\ r.kind = "me"
  /\ pending' = Answer(pending, r)
  /\ user' = NULL
  /\ token' = NULL
  /\ ls' = ls
  /\ isLoading' = FALSE
  /\ route' = IF r.nav THEN "/" ELSE route
  /\ pushed' = IF r.nav THEN "/" ELSE NULL
  /\ lastOp' = "meFail"
  /\ effects' = <<"setUser", "setToken", "setIsLoading">> \o (IF r.nav THEN <<"push">> ELSE <<>>)
  /\ raised' = NULL
  /\ bootHist' = IF r.nav THEN bootHist ELSE "rejected"
  /\ rejected' = r.tok
  /\ UNCHANGED <<axiosAuth, booted, sinceLogout>>
  /\ UNCHANGED predVars
  /\ UNCHANGED <<healthVars, infoVars>>
  /\ HistoryEffect

\* GET /users/me rejected or unreachable: the catch clears user, token and the
\* store entry (the default header is not touched), then setIsLoading(false);
\* fetchUser swallows the error, so login still pushes "/".
MeFail(r) ==
  /\ r.kind = "me"
  /\ pending' = Answer(pending, r)
  /\ user' = NULL
  /\ token' = NULL
  /\ ls' = NULL
  /\ isLoading' = FALSE
  /\ route' = IF r.nav THEN "/" ELSE route
  /\ pushed' = IF r.nav THEN "/" ELSE NULL
  /\ lastOp' = "meFail"
  /\ effects' = <<"setUser", "setToken", "removeItem", "setIsLoading">> \o (IF r.nav THEN <<"push">> ELSE <<>>)
  /\ raised' = NULL
  /\ bootHist' = IF r.nav THEN bootHist ELSE "rejected"
  /\ rejected' = r.tok
  /\ UNCHANGED <<axiosAuth, booted, sinceLogout>>
  /\ UNCHANGED predVars
  /\ UNCHANGED <<healthVars, infoVars>>
  /\ HistoryEffect

\* signup up to its await: set the loading flag and POST /signup.
SignupCall ==
  /\ booted
  /\ BagCardinality(pending) < MaxPending
  /\ isLoading' = TRUE
  /\ pending' = Issue(pending, Req("signup", NULL, FALSE))
  /\ lastOp' = "signup"
  /\ effects' = <<"setIsLoading">>
  /\ pushed' = NULL
  /\ raised' = NULL
  /\ UNCHANGED <<user, token, ls, axiosAuth, route, booted, sinceLogout, bootHist, rejected>>
  /\ UNCHANGED predVars
  /\ UNCHANGED <<healthVars, infoVars>>
  /\ HistoryEffect

\* SignupOk storing and attaching a credential as login does.
SignupOkAuthenticates(r) ==
  /\ r.kind = "signup"
  /\ pending' = Answer(pending, r)
  /\ route' = "/login?signup=success"
  /\ pushed' = "/login?signup=success"
  /\ lastOp' = "signupOk"
  /\ effects' = <<"setToken", "setItem", "setHeader", "push">>
  /\ raised' = NULL
  /\ token' = "t1"
  /\ ls' = "t1"
  /\ axiosAuth' = Bearer("t1")
  /\ UNCHANGED <<user, isLoading, booted, sinceLogout, bootHist, rejected>>
  /\ UNCHANGED predVars
  /\ UNCHANGED <<healthVars, infoVars>>
  /\ HistoryEffect

\* POST /signup succeeded: push the login surface with the success indicator.
\* The loading flag set by the call is not cleared on this path.
SignupOk(r) ==
  /\ r.kind = "signup"
  /\ pending' = Answer(pending, r)
  /\ route' = "/login?signup=success"
  /\ pushed' = "/login?signup=success"
  /\ lastOp' = "signupOk"
  /\ effects' = <<"push">>
  /\ raised' = NULL
  /\ UNCHANGED <<user, token, isLoading, ls, axiosAuth, booted, sinceLogout, bootHist, rejected>>
  /\ UNCHANGED predVars
  /\ UNCHANGED <<healthVars, infoVars>>
  /\ HistoryEffect

\* POST /signup failed: the catch clears the loading flag and re-throws.
SignupFail(r, e) ==
  /\ r.kind = "signup"
  /\ pending' = Answer(pending, r)
  /\ isLoading' = FALSE
  /\ lastOp' = "signupFail"
  /\ effects' = <<"setIsLoading">>
  /\ pushed' = NULL
  /\ raised' = e
  /\ UNCHANGED <<user, token, ls, axiosAuth, route, booted, sinceLogout, bootHist, rejected>>
  /\ UNCHANGED predVars
  /\ UNCHANGED <<healthVars, infoVars>>
  /\ HistoryEffect

\* The part of the state logout writes, as one record.
AuthRec == [user |-> user, token |-> token, ls |-> ls, axiosAuth |-> axiosAuth,
            route |-> route, isLoading |-> isLoading, raised |-> raised]

\* LogoutEffect without the `delete` of the default Authorization header.
LogoutEffectKeepsHeader(a) ==
  [a EXCEPT !.user = NULL, !.token = NULL, !.ls = NULL,
            !.route = "/login", !.isLoading = FALSE, !.raised = NULL]

\* LogoutEffect that throws when there is no session to end.
LogoutEffectThrowsWhenOut(a) ==
  IF a.token = NULL THEN [a EXCEPT !.raised = "not logged in"] ELSE
  [a EXCEPT !.user = NULL, !.token = NULL, !.ls = NULL, !.axiosAuth = NoHeader,
            !.route = "/login", !.isLoading = FALSE, !.raised = NULL]

\* What logout makes of that record: the six statements of its body, none of
\* which can throw (removeItem and delete accept a missing key).
LogoutEffect(a) ==
  [a EXCEPT !.user = NULL, !.token = NULL, !.ls = NULL, !.axiosAuth = NoHeader,
            !.route = "/login", !.isLoading = FALSE, !.raised = NULL]

\* logout: synchronous, no await; requests in flight stay in flight.
Logout ==
  /\ booted
  /\ LET b == LogoutEffect(AuthRec) IN
       /\ user' = b.user
       /\ token' = b.token
       /\ ls' = b.ls
       /\ axiosAuth' = b.axiosAuth
       /\ route' = b.route
       /\ isLoading' = b.isLoading
       /\ raised' = b.raised
  /\ pushed' = "/login"
  /\ lastOp' = "logout"
  /\ effects' = <<"setUser", "setToken", "removeItem", "deleteHeader", "push", "setIsLoading">>
  /\ sinceLogout' = TRUE
  /\ UNCHANGED <<booted, pending, bootHist, rejected>>
  /\ UNCHANGED predVars
  /\ UNCHANGED <<healthVars, infoVars>>
  /\ HistoryEffect

----------------------------------------------------------------------------
(* PredictionPage *)

\* Option values of the selects (a few of each list).
BedroomValues == {"2"}
BathroomValues == {"1"}
PropertyTypeValues == {"apartment", "house"}
DublinAreaValues == {"dublin-4"}
RoomTypeValues == {"double"}

\* response.data.predictedPrice of a successful POST /predict.
Prices == {1500, 2400}

\* State after construction of the page: the nine useState initial values.
InitPage ==
  /\ activeFormType = "property"
  /\ bedrooms = EMPTY
  /\ bathrooms = EMPTY
  /\ propertyType = EMPTY
  /\ dublinArea = EMPTY
  /\ roomType = EMPTY
  /\ predictedPrice = Null
  /\ predLoading = FALSE
  /\ submittedDetails = Null
  /\ predInflight = <<>>
  /\ dropped = Null

\* PropertyMissing without the bathrooms test.
PropertyMissingNoBathrooms ==
  bedrooms = EMPTY \/ propertyType = EMPTY \/ dublinArea = EMPTY

\* The early-return conditions of handlePredict, per variant.
PropertyMissing ==
  bedrooms = EMPTY \/ bathrooms = EMPTY \/ propertyType = EMPTY \/ dublinArea = EMPTY

SharingMissing ==
  propertyType = EMPTY \/ dublinArea = EMPTY \/ roomType = EMPTY

\* The payload object literals of handlePredict: the keys are the record's domain.
PropertyPayload ==
  [bedrooms |-> bedrooms, bathrooms |-> bathrooms, propertyType |-> propertyType,
   dublinArea |-> dublinArea, isShared |-> FALSE, roomType |-> NULL]

\* SharingPayload built with the bedrooms and bathrooms keys of the other variant.
SharingPayloadWithRooms ==
  [bedrooms |-> bedrooms, bathrooms |-> bathrooms, propertyType |-> propertyType, dublinArea |-> dublinArea, isShared |-> TRUE,
   roomType |-> roomType]

SharingPayload ==
  [propertyType |-> propertyType, dublinArea |-> dublinArea, isShared |-> TRUE,
   roomType |-> roomType]

\* currentSubmittedDetails, per variant.
PropertyDetails ==
  [bedrooms |-> bedrooms, bathrooms |-> bathrooms, propertyType |-> propertyType,
   dublinArea |-> dublinArea, isShared |-> FALSE, roomType |-> NULL]

SharingDetails ==
  [propertyType |-> propertyType, dublinArea |-> dublinArea, roomType |-> roomType,
   isShared |-> TRUE]

\* isFormValid, which enables the submit button.
IsFormValid ==
  IF activeFormType = "property"
    THEN bedrooms # EMPTY /\ bathrooms # EMPTY /\ propertyType # EMPTY /\ dublinArea # EMPTY
    ELSE propertyType # EMPTY /\ dublinArea # EMPTY /\ roomType # EMPTY

\* The condition of the result card: {predictedPrice && submittedDetails && ...};
\* a price of 0 is falsy.
ResultShown ==
  predictedPrice # Null /\ predictedPrice[1] # 0 /\ submittedDetails # Null

\* A POST /predict in flight: the payload sent, the details its continuation
\* closed over, and the Authorization header axios merged in from its defaults
\* when the request was issued.  afterLogout and rejected are sinceLogout and
\* rejected as they were at that moment.
PredReq(payload, details) ==
  [payload |-> payload, details |-> details, auth |-> axiosAuth,
   afterLogout |-> sinceLogout, rejected |-> rejected]

\* handlePredict up to its await: clear the previous result, validate the fields
\* of the active variant, build the payload and post it.  This is the function
\* itself, which tests neither isFormValid nor the loading flag; the button that
\* calls it is ClickPredict.
HandlePredict ==
  /\ booted
  /\ predictedPrice' = Null
  /\ submittedDetails' = Null
  /\ dropped' = Null
  /\ IF activeFormType = "property"
       THEN IF PropertyMissing
              THEN /\ predLoading' = FALSE
                   /\ predInflight' = predInflight
              ELSE /\ Len(predInflight) < MaxPredInflight
                   /\ predLoading' = TRUE
                   /\ predInflight' =
                        Append(predInflight, PredReq(PropertyPayload, PropertyDetails))
       ELSE IF SharingMissing
              THEN /\ predLoading' = FALSE
                   /\ predInflight' = predInflight
              ELSE /\ Len(predInflight) < MaxPredInflight
                   /\ predLoading' = TRUE
                   /\ predInflight' =
                        Append(predInflight, PredReq(SharingPayload, SharingDetails))
  /\ lastOp' = "handlePredict"
  /\ effects' = <<>>
  /\ pushed' = NULL
  /\ raised' = NULL
  /\ UNCHANGED formVars
  /\ UNCHANGED sessionVars
  /\ UNCHANGED <<healthVars, infoVars, histVars>>

\* The submit button: disabled={!isFormValid() || isLoading}, onClick={handlePredict}.
ClickPredict ==
  /\ IsFormValid
  /\ ~predLoading
  /\ HandlePredict

\* POST /predict answered: show the price with the details of that submission,
\* then the finally block clears the loading flag.
PredictOk(i, price) ==
  /\ i \in 1..Len(predInflight)
  /\ predictedPrice' = Some(price)
  /\ submittedDetails' = Some(predInflight[i].details)
  /\ predLoading' = FALSE
  /\ predInflight' = RemoveAt(predInflight, i)
  /\ dropped' = Null
  /\ lastOp' = "predictOk"
  /\ effects' = <<>>
  /\ pushed' = NULL
  /\ raised' = NULL
  /\ UNCHANGED formVars
  /\ UNCHANGED sessionVars
  /\ UNCHANGED <<healthVars, infoVars, histVars>>

\* POST /predict failed: the catch only logs; the finally block clears the flag.
PredictFail(i) ==
  /\ i \in 1..Len(predInflight)
  /\ predLoading' = FALSE
  /\ predInflight' = RemoveAt(predInflight, i)
  /\ dropped' = Null
  /\ lastOp' = "predictFail"
  /\ effects' = <<>>
  /\ pushed' = NULL
  /\ raised' = NULL
  /\ UNCHANGED formVars
  /\ UNCHANGED <<predictedPrice, submittedDetails>>
  /\ UNCHANGED sessionVars
  /\ UNCHANGED <<healthVars, infoVars, histVars>>

\* HandleTabChange without setPredictedPrice(null) and setSubmittedDetails(null).
HandleTabChangeKeepsResult(v) ==
  /\ booted
  /\ activeFormType' = v
  /\ bedrooms' = EMPTY
  /\ bathrooms' = EMPTY
  /\ propertyType' = EMPTY
  /\ dublinArea' = EMPTY
  /\ roomType' = EMPTY
  /\ dropped' = IF ResultShown THEN predictedPrice ELSE Null
  /\ lastOp' = "handleTabChange"
  /\ effects' = <<>>
  /\ pushed' = NULL
  /\ raised' = NULL
  /\ UNCHANGED <<predictedPrice, submittedDetails, predLoading, predInflight>>
  /\ UNCHANGED sessionVars
  /\ UNCHANGED <<healthVars, infoVars, histVars>>

\* handleTabChange: switch the variant, empty all five fields, drop the result.
HandleTabChange(v) ==
  /\ booted
  /\ activeFormType' = v
  /\ bedrooms' = EMPTY
  /\ bathrooms' = EMPTY
  /\ propertyType' = EMPTY
  /\ dublinArea' = EMPTY
  /\ roomType' = EMPTY
  /\ predictedPrice' = Null
  /\ submittedDetails' = Null
  /\ dropped' = IF ResultShown THEN predictedPrice ELSE Null
  /\ lastOp' = "handleTabChange"
  /\ effects' = <<>>
  /\ pushed' = NULL
  /\ raised' = NULL
  /\ UNCHANGED <<predLoading, predInflight>>
  /\ UNCHANGED sessionVars
  /\ UNCHANGED <<healthVars, infoVars, histVars>>

\* What a select's onValueChange leaves alone.
SetFieldFrame ==
  /\ lastOp' = "setField"
  /\ effects' = <<>>
  /\ pushed' = NULL
  /\ raised' = NULL
  /\ dropped' = Null
  /\ UNCHANGED <<activeFormType, predictedPrice, predLoading, submittedDetails, predInflight>>
  /\ UNCHANGED sessionVars
  /\ UNCHANGED <<healthVars, infoVars, histVars>>

\* The selects of renderPropertyForm and renderSharedRoomForm; a select exists
\* only while its tab is the active one.
SetBedrooms(v) ==
  /\ booted /\ activeFormType = "property"
  /\ bedrooms' = v
  /\ UNCHANGED <<bathrooms, propertyType, dublinArea, roomType>>
  /\ SetFieldFrame

SetBathrooms(v) ==
  /\ booted /\ activeFormType = "property"
  /\ bathrooms' = v
  /\ UNCHANGED <<bedrooms, propertyType, dublinArea, roomType>>
  /\ SetFieldFrame

SetPropertyType(v) ==
  /\ booted
  /\ propertyType' = v
  /\ UNCHANGED <<bedrooms, bathrooms, dublinArea, roomType>>
  /\ SetFieldFrame

SetDublinArea(v) ==
  /\ booted
  /\ dublinArea' = v
  /\ UNCHANGED <<bedrooms, bathrooms, propertyType, roomType>>
  /\ SetFieldFrame

SetRoomType(v) ==
  /\ booted /\ activeFormType = "sharing"
  /\ roomType' = v
  /\ UNCHANGED <<bedrooms, bathrooms, propertyType, dublinArea>>
  /\ SetFieldFrame

----------------------------------------------------------------------------
(* HealthIndicator *)

\* Bound of the model: firings of the interval timer.
MaxTicks == 2

\* response.data of a GET /healthcheck that succeeded.
HealthReadings ==
  {[status |-> "healthy", property_model_trained |-> TRUE,
    shared_model_trained |-> TRUE, both_models_ready |-> TRUE],
   [status |-> "degraded", property_model_trained |-> TRUE,
    shared_model_trained |-> FALSE, both_models_ready |-> FALSE]}

\* The object literal of the catch block of checkHealth.
ErrorReading ==
  [status |-> "error", property_model_trained |-> FALSE,
   shared_model_trained |-> FALSE, both_models_ready |-> FALSE]

\* State after construction: the two useState initial values, no timer, no check.
InitHealth ==
  /\ healthStatus = Null
  /\ healthLoading = TRUE
  /\ healthPhase = "unmounted"
  /\ healthInflight = {}
  /\ healthIssued = 0
  /\ healthTicks = 0
  /\ healthShown = 0
  /\ healthFailed = 0
  /\ healthPrev = Null

\* The checks issued and in flight, as one record.
HealthCalls == [healthInflight |-> healthInflight, healthIssued |-> healthIssued]

\* CheckHealth that skips the check while an earlier one is outstanding.
CheckHealthSkipsWhenBusy(c) ==
  IF c.healthInflight # {} THEN c ELSE
  [healthInflight |-> c.healthInflight \cup {c.healthIssued + 1},
   healthIssued |-> c.healthIssued + 1]

\* checkHealth up to its await: GET /healthcheck, whatever is outstanding.
CheckHealth(c) ==
  [healthInflight |-> c.healthInflight \cup {c.healthIssued + 1},
   healthIssued |-> c.healthIssued + 1]

\* What a step of the indicator leaves alone.
HealthFrame ==
  /\ pushed' = NULL
  /\ raised' = NULL
  /\ UNCHANGED sessionVars
  /\ UNCHANGED <<predVars, infoVars, histVars>>

\* The effect on mount: checkHealth() at once, then setInterval(checkHealth, 60000).
MountHealth ==
  /\ healthPhase = "unmounted"
  /\ healthPhase' = "mounted"
  /\ healthInflight' = CheckHealth(HealthCalls).healthInflight
  /\ healthIssued' = CheckHealth(HealthCalls).healthIssued
  /\ lastOp' = "mountHealth"
  /\ effects' = <<>>
  /\ UNCHANGED <<healthStatus, healthLoading, healthTicks, healthShown, healthFailed,
                 healthPrev>>
  /\ HealthFrame

\* HealthTick that shows the loading state again for the new check.
HealthTickShowsChecking ==
  /\ healthPhase = "mounted"
  /\ healthTicks < MaxTicks
  /\ healthTicks' = healthTicks + 1
  /\ healthInflight' = CheckHealth(HealthCalls).healthInflight
  /\ healthIssued' = CheckHealth(HealthCalls).healthIssued
  /\ healthLoading' = TRUE
  /\ lastOp' = "healthTick"
  /\ effects' = <<>>
  /\ UNCHANGED <<healthStatus, healthPhase, healthShown, healthFailed, healthPrev>>
  /\ HealthFrame

\* The interval timer fires: checkHealth().
HealthTick ==
  /\ healthPhase = "mounted"
  /\ healthTicks < MaxTicks
  /\ healthTicks' = healthTicks + 1
  /\ healthInflight' = CheckHealth(HealthCalls).healthInflight
  /\ healthIssued' = CheckHealth(HealthCalls).healthIssued
  /\ lastOp' = "healthTick"
  /\ effects' = <<>>
  /\ UNCHANGED <<healthStatus, healthLoading, healthPhase, healthShown, healthFailed,
                 healthPrev>>
  /\ HealthFrame

\* The cleanup of the effect: clearInterval(interval).
TeardownHealth ==
  /\ healthPhase = "mounted"
  /\ healthPhase' = "torndown"
  /\ lastOp' = "teardownHealth"
  /\ effects' = <<>>
  /\ UNCHANGED <<healthStatus, healthLoading, healthInflight, healthIssued, healthTicks,
                 healthShown, healthFailed, healthPrev>>
  /\ HealthFrame

\* GET /healthcheck number n answered: setHealthStatus(response.data), then the
\* finally block clears the loading flag.
HealthOk(n, data) ==
  /\ healthPhase = "mounted"
  /\ n \in healthInflight
  /\ healthInflight' = healthInflight \ {n}
  /\ healthStatus' = Some(data)
  /\ healthLoading' = FALSE
  /\ healthShown' = n
  /\ healthPrev' = healthStatus
  /\ lastOp' = "healthOk"
  /\ effects' = <<>>
  /\ UNCHANGED <<healthPhase, healthIssued, healthTicks, healthFailed>>
  /\ HealthFrame

\* HealthFail that overwrites only the status field of the reading it finds.
HealthFailKeepsFlags(n) ==
  /\ healthPhase = "mounted"
  /\ n \in healthInflight
  /\ healthInflight' = healthInflight \ {n}
  /\ healthStatus' = IF healthStatus = Null THEN Some(ErrorReading)
                     ELSE Some([healthStatus[1] EXCEPT !.status = "error"])
  /\ healthLoading' = FALSE
  /\ healthShown' = n
  /\ healthFailed' = IF n > healthFailed THEN n ELSE healthFailed
  /\ healthPrev' = healthStatus
  /\ lastOp' = "healthFail"
  /\ effects' = <<>>
  /\ UNCHANGED <<healthPhase, healthIssued, healthTicks>>
  /\ HealthFrame

\* GET /healthcheck number n failed: the catch stores the error reading, then the
\* finally block clears the loading flag.
HealthFail(n) ==
  /\ healthPhase = "mounted"
  /\ n \in healthInflight
  /\ healthInflight' = healthInflight \ {n}
  /\ healthStatus' = Some(ErrorReading)
  /\ healthLoading' = FALSE
  /\ healthShown' = n
  /\ healthFailed' = IF n > healthFailed THEN n ELSE healthFailed
  /\ healthPrev' = healthStatus
  /\ lastOp' = "healthFail"
  /\ effects' = <<>>
  /\ UNCHANGED <<healthPhase, healthIssued, healthTicks>>
  /\ HealthFrame

\* An answer that arrives after the teardown: the state it would set is that of
\* a component which no longer exists.
HealthLate(n) ==
  /\ healthPhase = "torndown"
  /\ n \in healthInflight
  /\ healthInflight' = healthInflight \ {n}
  /\ lastOp' = "healthLate"
  /\ effects' = <<>>
  /\ UNCHANGED <<healthStatus, healthLoading, healthPhase, healthIssued, healthTicks,
                 healthShown, healthFailed, healthPrev>>
  /\ HealthFrame

\* const isHealthy = healthStatus?.status === 'healthy'
IsHealthy == healthStatus # Null /\ healthStatus[1].status = "healthy"

\* indicatorText
IndicatorText ==
  IF healthLoading THEN "Checking..."
  ELSE IF IsHealthy THEN "System Online" ELSE "System Issues"

----------------------------------------------------------------------------
(* ModelInfoDisplay *)

\* Bounds of the model: requests in flight, and entries of feature_importances.
MaxInfoInflight == 2
MaxFeatures == 11

\* The number of features shown: .slice(0, 10).
TopN == 10

\* Keys of feature_importances, in the order the response lists them.
FeatureNames ==
  <<"bedrooms", "bathrooms", "dublin_area_1", "dublin_area_2", "dublin_area_4",
    "dublin_area_6", "dublin_area_8", "property_type_apartment", "property_type_house",
    "property_type_studio", "property_type_flat", "property_type_duplex",
    "room_type_single", "room_type_double">>

\* Importances, in thousandths.
Weights == {50, 300}

\* Object.entries of a feature_importances object with n keys: the [key, value]
\* pairs in the order of the keys.
EntriesOfSize(n) ==
  {[i \in 1..n |-> <<FeatureNames[i], w[i]>>] : w \in [1..n -> Weights]}

\* The maps a response can carry: every one up to MaxFeatures entries, or a few.
RankingMaps == UNION {EntriesOfSize(n) : n \in 0..MaxFeatures}

InfoMaps == {<<>>, <<<<"bedrooms", 300>>, <<"bathrooms", 50>>>>}

\* State after construction: the three useState initial values.
InitInfo ==
  /\ activeModelType = "property"
  /\ modelInfo = Null
  /\ infoError = Null
  /\ infoMounted = FALSE
  /\ infoInflight = <<>>
  /\ infoLast = NULL
  /\ featureBars = <<>>

\* Array.prototype.sort with the comparator (a, b) => b - a: descending by
\* weight and stable, entries of equal weight keep their order.
RECURSIVE InsertDescending(_, _)
InsertDescending(e, s) ==
  IF s = <<>> THEN <<e>>
  ELSE IF Head(s)[2] >= e[2]
    THEN <<Head(s)>> \o InsertDescending(e, Tail(s))
    ELSE <<e>> \o s

\* SortDescending in ascending order of weight.
RECURSIVE SortAscending(_)
SortAscending(s) ==
  IF s = <<>> THEN <<>>
  ELSE LET rest == SortAscending(SubSeq(s, 1, Len(s) - 1))
           e == s[Len(s)]
           k == Cardinality({i \in 1..Len(rest) : rest[i][2] <= e[2]})
       IN  SubSeq(rest, 1, k) \o <<e>> \o SubSeq(rest, k + 1, Len(rest))

RECURSIVE SortDescending(_)
SortDescending(s) ==
  IF s = <<>> THEN <<>>
  ELSE InsertDescending(s[Len(s)], SortDescending(SubSeq(s, 1, Len(s) - 1)))

\* Array.prototype.slice(0, n).
SliceTo(s, n) == SubSeq(s, 1, IF Len(s) < n THEN Len(s) ELSE n)

\* const sortedFeatures = Object.entries(...).sort(...).slice(0, 10)
SortedFeatures(entries) == SliceTo(SortDescending(entries), TopN)

\* style={{ width: `${importance * 100}%` }}
BarWidth(importance) == importance * 100

\* The rows sortedFeatures.map renders: the feature, its importance, its bar.
FeatureRows(entries) ==
  LET sortedFeatures == SortedFeatures(entries) IN
    [i \in 1..Len(sortedFeatures) |->
       [feature |-> sortedFeatures[i][1],
        importance |-> sortedFeatures[i][2],
        width |-> BarWidth(sortedFeatures[i][2])]]

\* Which of the three returns of the component a render takes.
ViewOf(err, info) ==
  IF err # Null THEN "error" ELSE IF info = Null THEN "loading" ELSE "data"

InfoView == ViewOf(infoError, modelInfo)

\* The feature rows of the render of error state err and model info info.
RenderRows(err, info) ==
  IF ViewOf(err, info) = "data" THEN FeatureRows(info[1].feature_importances) ELSE <<>>

\* setError(`Failed to load model information for ${activeModelType} model.`)
InfoErrorFor(v) == <<"Failed to load model information for ", v, " model.">>

\* What a step of the component leaves alone.
InfoFrame ==
  /\ pushed' = NULL
  /\ raised' = NULL
  /\ UNCHANGED sessionVars
  /\ UNCHANGED <<predVars, healthVars, histVars>>

\* The effect on mount: fetchModelInfo up to its await for the initial variant.
MountInfo ==
  /\ ~infoMounted
  /\ infoMounted' = TRUE
  /\ infoError' = Null
  /\ infoInflight' = Append(infoInflight, [variant |-> activeModelType])
  /\ infoLast' = NULL
  /\ featureBars' = RenderRows(infoError', modelInfo)
  /\ lastOp' = "mountInfo"
  /\ effects' = <<>>
  /\ UNCHANGED <<activeModelType, modelInfo>>
  /\ InfoFrame

\* onValueChange of the tabs: setActiveModelType(v); when the variant changes the
\* effect runs again: setError(null), then GET /model-info for v.
SelectModel(v) ==
  /\ infoMounted
  /\ activeModelType' = v
  /\ IF v # activeModelType
       THEN /\ Len(infoInflight) < MaxInfoInflight
            /\ infoError' = Null
            /\ infoInflight' = Append(infoInflight, [variant |-> v])
       ELSE UNCHANGED <<infoError, infoInflight>>
  /\ infoLast' = NULL
  /\ featureBars' = RenderRows(infoError', modelInfo)
  /\ lastOp' = "selectModel"
  /\ effects' = <<>>
  /\ UNCHANGED <<modelInfo, infoMounted>>
  /\ InfoFrame

\* GET /model-info answered: setModelInfo(response.data).
InfoOk(i, m) ==
  /\ infoMounted
  /\ i \in 1..Len(infoInflight)
  /\ modelInfo' = Some([model_type |-> infoInflight[i].variant, feature_importances |-> m])
  /\ infoInflight' = RemoveAt(infoInflight, i)
  /\ infoLast' = infoInflight[i].variant
  /\ featureBars' = RenderRows(infoError, modelInfo')
  /\ lastOp' = "infoOk"
  /\ effects' = <<>>
  /\ UNCHANGED <<activeModelType, infoError, infoMounted>>
  /\ InfoFrame

\* GET /model-info failed: the catch sets the error, naming the variant the
\* effect closed over.
InfoFail(i) ==
  /\ infoMounted
  /\ i \in 1..Len(infoInflight)
  /\ infoError' = InfoErrorFor(infoInflight[i].variant)
  /\ infoInflight' = RemoveAt(infoInflight, i)
  /\ infoLast' = infoInflight[i].variant
  /\ featureBars' = RenderRows(infoError', modelInfo)
  /\ lastOp' = "infoFail"
  /\ effects' = <<>>
  /\ UNCHANGED <<activeModelType, modelInfo, infoMounted>>
  /\ InfoFrame

----------------------------------------------------------------------------
(* SearchHistoryPage: mounting and the answers to loadHistory *)

\* Items of a history response (their ids).
HistoryResponses == {<<7, 3>>}

\* The ways GET /users/me/search-history fails: the service rejects the bearer
\* credential (an error response with a `detail`), it answers with an error
\* response that has none, or the transport fails.
HistoryErrors == {"rejected", "server", "network"}

\* The message of the Error fetchUserSearchHistory throws: the `detail` of the
\* error response when it has one, its default otherwise; the message of the
\* error fetch threw when the transport failed.
HistoryErrorMessage(e) ==
  CASE e = "rejected" -> "Could not validate credentials"
    [] e = "server" -> "Failed to fetch search history."
    [] e = "network" -> "Failed to fetch"

\* What a step of the page leaves alone.
HistFrame ==
  /\ pushed' = NULL
  /\ raised' = NULL
  /\ UNCHANGED sessionVars
  /\ UNCHANGED <<predVars, healthVars, infoVars>>

\* The page is constructed and its effect runs for the first time.
MountHistory ==
  /\ booted
  /\ ~histMounted
  /\ histMounted' = TRUE
  /\ SetHistRec(LoadHistoryEffect(FreshHistRec, user, token, isLoading))
  /\ lastOp' = "mountHistory"
  /\ effects' = <<>>
  /\ HistFrame

\* The page is discarded; what its requests in flight would set is the state of
\* a component which no longer exists.
UnmountHistory ==
  /\ histMounted
  /\ histMounted' = FALSE
  /\ SetHistRec(FreshHistRec)
  /\ lastOp' = "unmountHistory"
  /\ effects' = <<>>
  /\ HistFrame

\* GET /users/me/search-history answered: setHistoryItems(data), then the
\* finally block clears the page's loading flag.
HistOk(r, items) ==
  /\ histMounted
  /\ BagIn(r, histInflight)
  /\ historyItems' = items
  /\ histLoading' = FALSE
  /\ histInflight' = Answer(histInflight, r)
  /\ lastOp' = "histOk"
  /\ effects' = <<>>
  /\ UNCHANGED <<histMounted, histError>>
  /\ HistFrame

\* The request failed in the way e: setError(err.message), then the finally block.
HistFail(r, e) ==
  /\ histMounted
  /\ BagIn(r, histInflight)
  /\ histError' = HistoryErrorMessage(e)
  /\ histLoading' = FALSE
  /\ histInflight' = Answer(histInflight, r)
  /\ lastOp' = IF e = "rejected" THEN "histRejected" ELSE "histFail"
  /\ effects' = <<>>
  /\ UNCHANGED <<histMounted, historyItems>>
  /\ HistFrame

\* What the page renders.
HistView ==
  IF histLoading \/ isLoading THEN "loading"
  ELSE IF histError # NULL THEN "error"
  ELSE IF historyItems = <<>> THEN "empty" ELSE "list"

----------------------------------------------------------------------------
(* Process restart *)

\* A reload of the page: every component is constructed again and the callbacks
\* of the old page are gone; only the store and the location survive.
Reload ==
  /\ booted
  /\ user' = NULL
  /\ token' = NULL
  /\ isLoading' = TRUE
  /\ axiosAuth' = NoHeader
  /\ booted' = FALSE
  /\ pending' = EmptyBag
  /\ lastOp' = "init"
  /\ effects' = <<>>
  /\ pushed' = NULL
  /\ raised' = NULL
  /\ sinceLogout' = FALSE
  /\ rejected' = NULL
  /\ activeFormType' = "property"
  /\ bedrooms' = EMPTY
  /\ bathrooms' = EMPTY
  /\ propertyType' = EMPTY
  /\ dublinArea' = EMPTY
  /\ roomType' = EMPTY
  /\ predictedPrice' = Null
  /\ predLoading' = FALSE
  /\ submittedDetails' = Null
  /\ predInflight' = <<>>
  /\ dropped' = Null
  /\ healthStatus' = Null
  /\ healthLoading' = TRUE
  /\ healthPhase' = "unmounted"
  /\ healthInflight' = {}
  /\ healthIssued' = 0
  /\ healthTicks' = 0
  /\ healthShown' = 0
  /\ healthFailed' = 0
  /\ healthPrev' = Null
  /\ activeModelType' = "property"
  /\ modelInfo' = Null
  /\ infoError' = Null
  /\ infoMounted' = FALSE
  /\ infoInflight' = <<>>
  /\ infoLast' = NULL
  /\ featureBars' = <<>>
  /\ histMounted' = FALSE
  /\ historyItems' = <<>>
  /\ histLoading' = TRUE
  /\ histError' = NULL
  /\ histInflight' = EmptyBag
  /\ UNCHANGED <<ls, route, bootHist>>

----------------------------------------------------------------------------
(* Specifications *)

\* The AuthProvider over restarts of the page.
Init == InitAuth /\ InitPage /\ InitHealth /\ InitInfo /\ InitHistory

Next ==
  \/ Bootstrap
  \/ LoginCall
  \/ \E r \in BagToSet(pending), t \in Tokens : LoginOk(r, t)
  \/ \E r \in BagToSet(pending), e \in Errors : LoginFail(r, e)
  \/ \E r \in BagToSet(pending) : MeOk(r)
  \/ \E r \in BagToSet(pending) : MeFail(r)
  \/ SignupCall
  \/ \E r \in BagToSet(pending) : SignupOk(r)
  \/ \E r \in BagToSet(pending), e \in Errors : SignupFail(r, e)
  \/ Logout
  \/ Reload

Spec == Init /\ [][Next]_vars

\* One session of the AuthProvider beside a prediction page whose form is filled
\* in: the calls the page sends out while the session changes.
InitOutbound ==
  /\ InitAuth
  /\ activeFormType = "property"
  /\ bedrooms = "2"
  /\ bathrooms = "1"
  /\ propertyType = "apartment"
  /\ dublinArea = "dublin-4"
  /\ roomType = EMPTY
  /\ predictedPrice = Null
  /\ predLoading = FALSE
  /\ submittedDetails = Null
  /\ predInflight = <<>>
  /\ dropped = Null
  /\ InitHealth /\ InitInfo /\ InitHistory

NextOutbound ==
  \/ Bootstrap
  \/ LoginCall
  \/ \E r \in BagToSet(pending), t \in Tokens : LoginOk(r, t)
  \/ \E r \in BagToSet(pending), e \in Errors : LoginFail(r, e)
  \/ \E r \in BagToSet(pending) : MeOk(r)
  \/ \E r \in BagToSet(pending) : MeFail(r)
  \/ SignupCall
  \/ \E r \in BagToSet(pending) : SignupOk(r)
  \/ \E r \in BagToSet(pending), e \in Errors : SignupFail(r, e)
  \/ Logout
  \/ ClickPredict
  \/ \E i \in 1..Len(predInflight), p \in Prices : PredictOk(i, p)
  \/ \E i \in 1..Len(predInflight) : PredictFail(i)

SpecOutbound == InitOutbound /\ [][NextOutbound]_vars

\* The prediction page alone, under a session that does not change.
InitPredict ==
  /\ \E t \in Tokens \cup {NULL} :
       /\ token = t
       /\ ls = t
       /\ user = IF t = NULL THEN NULL ELSE IdentityOf(t)
       /\ axiosAuth = IF t = NULL THEN NoHeader ELSE Bearer(t)
  /\ isLoading = FALSE
  /\ route = "/"
  /\ booted = TRUE
  /\ pending = EmptyBag
  /\ lastOp = "init"
  /\ effects = <<>>
  /\ pushed = NULL
  /\ raised = NULL
  /\ sinceLogout = FALSE
  /\ bootHist = "fresh"
  /\ rejected = NULL
  /\ InitPage
  /\ InitHealth /\ InitInfo /\ InitHistory

NextPredict ==
  \/ \E v \in BedroomValues : SetBedrooms(v)
  \/ \E v \in BathroomValues : SetBathrooms(v)
  \/ \E v \in PropertyTypeValues : SetPropertyType(v)
  \/ \E v \in DublinAreaValues : SetDublinArea(v)
  \/ \E v \in RoomTypeValues : SetRoomType(v)
  \/ \E v \in {"property", "sharing"} : HandleTabChange(v)
  \/ HandlePredict
  \/ \E i \in 1..Len(predInflight), p \in Prices : PredictOk(i, p)
  \/ \E i \in 1..Len(predInflight) : PredictFail(i)

SpecPredict == InitPredict /\ [][NextPredict]_vars

\* The components that do not depend on the session, beside one nobody is
\* logged in to.
InitWidgets == InitPredict /\ token = NULL

\* The health indicator from its mount to its teardown.
NextHealth ==
  \/ MountHealth
  \/ HealthTick
  \/ TeardownHealth
  \/ \E n \in healthInflight, data \in HealthReadings : HealthOk(n, data)
  \/ \E n \in healthInflight : HealthFail(n)
  \/ \E n \in healthInflight : HealthLate(n)

SpecHealth == InitWidgets /\ [][NextHealth]_vars

\* The model information display under selections of the variant.
NextInfo ==
  \/ MountInfo
  \/ \E v \in {"property", "sharing"} : SelectModel(v)
  \/ \E i \in 1..Len(infoInflight), m \in InfoMaps : InfoOk(i, m)
  \/ \E i \in 1..Len(infoInflight) : InfoFail(i)

SpecInfo == InitWidgets /\ [][NextInfo]_vars

\* The first render of the model information, for every feature_importances.
NextRanking ==
  \/ MountInfo
  \/ \E i \in 1..Len(infoInflight), m \in RankingMaps : InfoOk(i, m)

SpecRanking == InitWidgets /\ [][NextRanking]_vars

\* The search history page beside the AuthProvider, whose callers start a login
\* or a signup while fewer than MaxHistPending identity requests are in flight.
NextHistory ==
  \/ Bootstrap
  \/ BagCardinality(pending) < MaxHistPending /\ LoginCall
  \/ \E r \in BagToSet(pending), t \in Tokens : LoginOk(r, t)
  \/ \E r \in BagToSet(pending), e \in Errors : LoginFail(r, e)
  \/ \E r \in BagToSet(pending) : MeOk(r)
  \/ \E r \in BagToSet(pending) : MeFail(r)
  \/ BagCardinality(pending) < MaxHistPending /\ SignupCall
  \/ \E r \in BagToSet(pending) : SignupOk(r)
  \/ \E r \in BagToSet(pending), e \in Errors : SignupFail(r, e)
  \/ Logout
  \/ MountHistory
  \/ UnmountHistory
  \/ \E r \in BagToSet(histInflight), items \in HistoryResponses : HistOk(r, items)
  \/ \E r \in BagToSet(histInflight), e \in HistoryErrors : HistFail(r, e)

SpecHistory == Init /\ [][NextHistory]_vars

----------------------------------------------------------------------------
(* Properties of the AuthProvider *)

\* Every call in flight, of either service, as [auth, afterLogout] pairs.
CallsInFlight ==
  {[auth |-> r.auth, afterLogout |-> r.afterLogout] : r \in BagToSet(pending)}
    \cup {[auth |-> predInflight[i].auth, afterLogout |-> predInflight[i].afterLogout] :
            i \in 1..Len(predInflight)}

\* C1: once logout() has run, user and token are null, the store holds no
\* "accessToken", the default Authorization header is absent, and until a login
\* stores a credential again the store, the token and the header stay absent and
\* every call issued (POST /predict, /login, /signup) carries no Authorization
\* header.
C1_LogoutDetachesCredential ==
  /\ lastOp = "logout" =>
       user = NULL /\ token = NULL /\ ls = NULL /\ axiosAuth = NoHeader
  /\ sinceLogout => token = NULL /\ ls = NULL /\ axiosAuth = NoHeader
  /\ \A c \in CallsInFlight : c.afterLogout => c.auth = NoHeader

\* C1 witness: logout ran while a credentialed GET /users/me was in flight, and a
\* POST /predict issued after it is on its way without a header.
C1_Witness ==
  /\ sinceLogout
  /\ \E r \in BagToSet(pending) : r.kind = "me"
  /\ \E i \in 1..Len(predInflight) :
       predInflight[i].afterLogout /\ predInflight[i].auth = NoHeader

\* C2: when GET /users/me is rejected, the state is user null, token null, loading
\* false and no "accessToken" in the store; the store stays empty until a login
\* writes it, so the next bootstrap issues no identity request and leaves the
\* state Unauthenticated, and it stays so until a login.
C2_RejectedBootstrapEndsUnauthenticated ==
  /\ lastOp = "meFail" =>
       user = NULL /\ token = NULL /\ ~isLoading /\ ls = NULL
  /\ bootHist \in {"rejected", "rebooted"} => ls = NULL
  /\ (bootHist = "rebooted" /\ lastOp = "bootstrap") =>
       pending = EmptyBag /\ ~isLoading /\ user = NULL /\ token = NULL
  /\ bootHist = "rebooted" =>
       /\ user = NULL
       /\ token = NULL
       /\ \A r \in BagToSet(pending) : r.kind # "me"

\* C2 witness: a bootstrap has run after the rejection of a stored credential.
C2_Witness ==
  bootHist = "rebooted" /\ lastOp = "bootstrap" /\ booted

\* C3: after GET /users/me has rejected a credential, no POST /predict issued
\* later carries that credential's Authorization header.
C3_RejectedCredentialDetached ==
  \A i \in 1..Len(predInflight) :
    predInflight[i].rejected # NULL =>
      predInflight[i].auth # Bearer(predInflight[i].rejected)

\* C4: bootstrap without a stored credential leaves loading false, user and token
\* null and issues no request; with one it leaves loading true, the token set,
\* the header attached and one GET /users/me in flight; and loading stays true
\* for as long as that request is in flight (a logout, which is specified to end
\* in Unauthenticated at once, is left out of the last part).
C4_BootstrapResolvesUntilAnswered ==
  /\ lastOp = "bootstrap" =>
       IF ls = NULL
         THEN ~isLoading /\ user = NULL /\ token = NULL /\ pending = EmptyBag
         ELSE /\ isLoading
              /\ token = ls
              /\ axiosAuth = Bearer(ls)
              /\ pending = SetToBag({Req("me", ls, FALSE)})
  /\ (~sinceLogout /\ \E r \in BagToSet(pending) : r.kind = "me" /\ ~r.nav) => isLoading

\* What holds right after POST /login has succeeded.
C5_AfterLoginOk ==
  lastOp = "loginOk" =>
    /\ token \in Tokens
    /\ ls = token
    /\ axiosAuth = Bearer(token)
    /\ BagIn(Req("me", token, TRUE), pending)
    /\ pushed = NULL

\* Navigation to "/" happens only in the step that processes the answer to the
\* GET /users/me of a login, and that step, when the answer is a success, sets
\* the identity of the credential login passed on and clears the loading flag.
C5_NavigatesAfterResolution ==
  /\ lastOp' = "loginOk" => route' = route
  /\ pushed' = "/" =>
       \E r \in BagToSet(pending) :
         /\ r.kind = "me" /\ r.nav
         /\ pending' = Answer(pending, r)
         /\ lastOp' = "meOk" => user' = IdentityOf(r.tok) /\ ~isLoading'
  /\ lastOp' \in {"meOk", "meFail"} =>
       \E r \in BagToSet(pending) :
         /\ r.kind = "me"
         /\ pending' = Answer(pending, r)
         /\ r.nav => pushed' = "/" /\ route' = "/"

\* C5: a successful POST /login stores the access_token in memory and in the
\* store, attaches it as the default header and starts GET /users/me with that
\* token without navigating; "/" is pushed only when that request has been
\* answered; on success the user is that token's identity and loading is false.
C5_LoginStoresResolvesThenNavigates ==
  []C5_AfterLoginOk /\ [][C5_NavigatesAfterResolution]_vars

\* C5 witness: login has run to its end with both requests successful.
C5_Witness ==
  /\ lastOp = "meOk" /\ pushed = "/"
  /\ token \in Tokens /\ ls = token /\ axiosAuth = Bearer(token)
  /\ user = IdentityOf(token)
  /\ ~isLoading

C7_SignupNeverAuthenticates ==
  [][/\ lastOp' \in {"signup", "signupOk", "signupFail"} =>
          user' = user /\ token' = token /\ ls' = ls /\ axiosAuth' = axiosAuth
     /\ lastOp' = "signup" => pushed' = NULL /\ route' = route
     /\ lastOp' = "signupOk" =>
          pushed' = "/login?signup=success" /\ route' = "/login?signup=success"
            /\ raised' = NULL
     /\ lastOp' = "signupFail" =>
          raised' \in Errors /\ pushed' = NULL /\ route' = route]_vars

\* C7 witness: a signup has succeeded and nobody is authenticated.
C7_Witness ==
  /\ lastOp = "signupOk" /\ route = "/login?signup=success"
  /\ user = NULL /\ token = NULL /\ ls = NULL /\ axiosAuth = NoHeader

\* C8: logout twice is logout once, logout raises nothing, logout in an
\* Unauthenticated state leaves user and token null with the store entry and the
\* header absent, and the state right after a logout is one a further logout does
\* not change.
C8_LogoutIdempotent ==
  LET once == LogoutEffect(AuthRec)
      twice == LogoutEffect(once)
  IN  booted =>
        /\ twice = once
        /\ once.raised = NULL
        /\ (user = NULL /\ token = NULL) =>
             /\ once.user = user /\ once.token = token
             /\ once.ls = NULL /\ once.axiosAuth = NoHeader
        /\ lastOp = "logout" => once = AuthRec

\* C8 witness: logout has run in a session that has been Unauthenticated since
\* its bootstrap found no credential.
C8_Witness ==
  lastOp = "logout" /\ bootHist = "rebooted" /\ user = NULL /\ token = NULL

----------------------------------------------------------------------------
(* Properties of the prediction page *)

\* The fields the claim names as required, per variant.
C9_Required(variant) ==
  IF variant = "property"
    THEN {"bedrooms", "bathrooms", "propertyType", "dublinArea"}
    ELSE {"propertyType", "dublinArea", "roomType"}

FieldValue(f) ==
  CASE f = "bedrooms" -> bedrooms
    [] f = "bathrooms" -> bathrooms
    [] f = "propertyType" -> propertyType
    [] f = "dublinArea" -> dublinArea
    [] f = "roomType" -> roomType

C9_AllRequiredFilled ==
  \A f \in C9_Required(activeFormType) : FieldValue(f) # EMPTY

\* What a handlePredict step does to the requests in flight.
C9_PostsIffFilled ==
  lastOp' = "handlePredict" =>
    IF C9_AllRequiredFilled
      THEN Len(predInflight') = Len(predInflight) + 1
      ELSE predInflight' = predInflight /\ ~predLoading'

\* C9: handlePredict posts to /predict exactly when bedrooms, bathrooms,
\* propertyType and dublinArea (property variant) or propertyType, dublinArea and
\* roomType (sharing variant) are all non-empty, and makes no call otherwise;
\* isFormValid tests the same fields.
C9_ValidationBeforeAnyCall ==
  [](IsFormValid <=> C9_AllRequiredFilled) /\ [][C9_PostsIffFilled]_vars

\* C9 witness: handlePredict has run on a property form with only bathrooms left
\* out, and nothing is in flight.
C9_Witness ==
  /\ lastOp = "handlePredict"
  /\ activeFormType = "property"
  /\ bedrooms # EMPTY /\ bathrooms = EMPTY /\ propertyType # EMPTY /\ dublinArea # EMPTY
  /\ predInflight = <<>> /\ ~predLoading

\* The two shapes a payload may have.
C10_IsPropertyRequest(p) ==
  /\ DOMAIN p = {"bedrooms", "bathrooms", "propertyType", "dublinArea", "isShared", "roomType"}
  /\ p.isShared = FALSE
  /\ p.roomType = NULL
  /\ p.bedrooms \in BedroomValues /\ p.bathrooms \in BathroomValues

C10_IsSharingRequest(p) ==
  /\ DOMAIN p = {"propertyType", "dublinArea", "isShared", "roomType"}
  /\ p.isShared = TRUE
  /\ p.roomType \in RoomTypeValues

\* The payload a handlePredict step posts is the active variant's, built from the
\* current field values.
C10_PostsActiveVariant ==
  (lastOp' = "handlePredict" /\ Len(predInflight') = Len(predInflight) + 1) =>
    LET p == predInflight'[Len(predInflight')].payload IN
      /\ p.propertyType = propertyType /\ p.dublinArea = dublinArea
      /\ IF activeFormType = "property"
           THEN C10_IsPropertyRequest(p) /\ p.bedrooms = bedrooms /\ p.bathrooms = bathrooms
           ELSE C10_IsSharingRequest(p) /\ p.roomType = roomType

\* C10: every payload posted to /predict is a PropertyRequest (isShared false,
\* roomType null, bedrooms and bathrooms set) or a SharingRequest (isShared true,
\* roomType set, no bedrooms or bathrooms key), the one of the variant active when
\* it was posted; none has a roomType together with bedrooms or bathrooms.
C10_PayloadIsOneVariant ==
  /\ [](\A i \in 1..Len(predInflight) :
          LET p == predInflight[i].payload IN
            /\ C10_IsPropertyRequest(p) \/ C10_IsSharingRequest(p)
            /\ ~(p.roomType # NULL /\ {"bedrooms", "bathrooms"} \cap DOMAIN p # {}))
  /\ [][C10_PostsActiveVariant]_vars

\* C10 witness: a sharing payload is in flight.
C10_Witness ==
  /\ lastOp = "handlePredict"
  /\ \E i \in 1..Len(predInflight) :
       predInflight[i].payload.isShared /\ predInflight[i].payload.roomType = "double"

\* C11: at most one POST /predict is in flight per prediction form, a call of
\* handlePredict made while an earlier one is outstanding issuing none.
C11_OneSubmissionInFlight ==
  Len(predInflight) <= 1

\* C12: after handleTabChange, to either variant, bedrooms, bathrooms,
\* propertyType, dublinArea and roomType are empty, predictedPrice and
\* submittedDetails are null, and the result card is not displayed.
C12_TabChangeClearsFormAndResult ==
  lastOp = "handleTabChange" =>
    /\ activeFormType \in {"property", "sharing"}
    /\ bedrooms = EMPTY /\ bathrooms = EMPTY /\ propertyType = EMPTY
    /\ dublinArea = EMPTY /\ roomType = EMPTY
    /\ predictedPrice = Null /\ submittedDetails = Null
    /\ ~ResultShown

\* C12 witness: the variant was switched to sharing while the result of a
\* successful submission was on display.
C12_Witness ==
  /\ lastOp = "handleTabChange" /\ activeFormType = "sharing"
  /\ dropped \in {Some(p) : p \in Prices}
  /\ ~ResultShown

----------------------------------------------------------------------------
(* Properties of the health indicator *)

\* The checks issued so far: none before the mount, one for the mount and one
\* for every firing of the timer after it.
C13_IssuedIsTicksPlusOne ==
  /\ healthPhase = "unmounted" => healthIssued = 0 /\ healthInflight = {}
  /\ healthPhase # "unmounted" => healthIssued = healthTicks + 1
  /\ lastOp = "mountHealth" => healthIssued = 1 /\ healthInflight = {1}

\* A firing of the timer issues exactly one new check, whatever is outstanding;
\* only the mount and the timer issue checks; after the teardown the timer does
\* not fire and nothing is issued.
C13_TickIssuesOne ==
  /\ lastOp' = "healthTick" =>
       /\ healthTicks' = healthTicks + 1
       /\ healthIssued' = healthIssued + 1
       /\ healthInflight' = healthInflight \cup {healthIssued + 1}
       /\ healthIssued + 1 \notin healthInflight
  /\ healthIssued' # healthIssued => lastOp' \in {"mountHealth", "healthTick"}
  /\ healthPhase = "torndown" =>
       /\ healthPhase' = "torndown"
       /\ healthTicks' = healthTicks
       /\ healthIssued' = healthIssued
       /\ healthInflight' \subseteq healthInflight

\* C13: the health poller issues one check on mount and exactly one more per
\* timer tick while mounted, whether the previous check succeeded, failed or is
\* outstanding; after the teardown no further check is issued.
C13_OneCheckPerTick ==
  []C13_IssuedIsTicksPlusOne /\ [][C13_TickIssuesOne]_vars

\* C13 witness: the first check failed, the timer then fired twice, the second
\* time while the check of its first firing was outstanding, and the indicator
\* has been torn down with both still in flight.
C13_Witness ==
  /\ healthPhase = "torndown"
  /\ healthFailed = 1
  /\ healthTicks = 2
  /\ healthInflight = {2, 3}

\* C14: after a failed check the stored HealthStatus is exactly status 'error'
\* with property_model_trained, shared_model_trained and both_models_ready
\* false, whatever it was before; after a successful check it is exactly a
\* reading of the service.
C14_CheckReplacesStatus ==
  /\ lastOp = "healthFail" =>
       /\ healthStatus # Null
       /\ DOMAIN healthStatus[1] = {"status", "property_model_trained",
                                    "shared_model_trained", "both_models_ready"}
       /\ healthStatus[1].status = "error"
       /\ ~healthStatus[1].property_model_trained
       /\ ~healthStatus[1].shared_model_trained
       /\ ~healthStatus[1].both_models_ready
  /\ lastOp = "healthOk" => healthStatus \in {Some(d) : d \in HealthReadings}

\* C14 witness: a failure has replaced a healthy reading with all flags true.
C14_Witness ==
  /\ lastOp = "healthFail"
  /\ healthPrev # Null
  /\ healthPrev[1].status = "healthy" /\ healthPrev[1].both_models_ready
  /\ healthStatus = Some(ErrorReading)

\* C15: the indicator is 'healthy' only on the answer of a check issued after
\* every check whose failure has been processed.
C15_NoStaleHealthyAfterFailure ==
  (~healthLoading /\ IsHealthy) => healthShown > healthFailed

----------------------------------------------------------------------------
(* Properties of the model information display *)

\* C16: while a fetch for the selected variant is in flight, the component does
\* not render model information of the other variant under the selected
\* variant's label.
C16_NoOtherVariantWhileFetching ==
  (/\ infoMounted
   /\ \E i \in 1..Len(infoInflight) : infoInflight[i].variant = activeModelType
   /\ InfoView = "data")
    => modelInfo[1].model_type = activeModelType

\* C17: while 'sharing' is the selected variant, the answer to a 'property'
\* fetch is discarded: the step that processes it leaves the stored model
\* information as it was.
C17_LatePropertyResponseDiscarded ==
  [][(lastOp' = "infoOk" /\ infoLast' = "property" /\ activeModelType = "sharing")
       => modelInfo' = modelInfo]_vars

\* C18: an error names the variant whose fetch failed, a select clears it, and
\* none from the fetch of an earlier selection is set or shown once a later
\* select has begun: an error on display is the selected variant's.
C18_ErrorIsOfLatestSelect ==
  /\ lastOp = "infoFail" => infoError = InfoErrorFor(infoLast)
  /\ infoError # Null => infoError = InfoErrorFor(activeModelType)

\* C19: when model information is rendered, the feature rows are min(n, 10) in
\* number for a map of n entries, in order of non-increasing weight, each an
\* entry of the map and none twice, no entry left out outweighs one shown, and
\* the bar of each row is its own weight times 100.
C19_TopTenByWeight ==
  InfoView = "data" =>
    LET entries == modelInfo[1].feature_importances
        n == Len(entries)
        shown == {featureBars[i].feature : i \in 1..Len(featureBars)}
    IN  /\ Len(featureBars) = IF n < 10 THEN n ELSE 10
        /\ \A i, j \in 1..Len(featureBars) :
             i < j => featureBars[i].importance >= featureBars[j].importance
        /\ \A i \in 1..Len(featureBars) :
             \E k \in 1..n : entries[k] = <<featureBars[i].feature, featureBars[i].importance>>
        /\ Cardinality(shown) = Len(featureBars)
        /\ \A k \in 1..n : entries[k][1] \notin shown =>
             \A i \in 1..Len(featureBars) : entries[k][2] <= featureBars[i].importance
        /\ \A i \in 1..Len(featureBars) :
             featureBars[i].width = featureBars[i].importance * 100

\* C19 witness: a map of eleven entries is rendered as ten rows, the heaviest
\* first, and the entry left out is one of the lightest.
C19_Witness ==
  /\ InfoView = "data"
  /\ Len(modelInfo[1].feature_importances) = 11
  /\ modelInfo[1].feature_importances[1][2] = 50
  /\ modelInfo[1].feature_importances[11][2] = 300
  /\ Len(featureBars) = 10
  /\ featureBars[1].importance = 300
  /\ featureBars[10].importance = 50

----------------------------------------------------------------------------
(* Properties of the search history page *)

\* What a step of the page or of the AuthProvider may do to the page.
C20_GateStep ==
  LET ran == \/ lastOp' = "mountHistory"
             \/ /\ histMounted /\ histMounted'
                /\ <<user', token', isLoading'>> # <<user, token, isLoading>>
      issued == BagCardinality(histInflight') > BagCardinality(histInflight)
  IN  /\ isLoading' =>
           /\ ~issued
           /\ histError' = PleaseLogIn => histError = PleaseLogIn
      /\ (ran /\ ~isLoading' /\ (user' = NULL \/ token' = NULL)) =>
           /\ histError' = PleaseLogIn
           /\ HistView' = "error"
           /\ ~issued
      /\ issued =>
           /\ ~isLoading' /\ user' # NULL /\ token' # NULL
           /\ histInflight' = Issue(histInflight, [tok |-> token'])

\* C20: while the auth loading flag is true the history page issues no request
\* and does not set the log-in error; when its effect runs with auth resolved
\* and the user or the token absent it shows the log-in error and issues no
\* request; it issues GET /users/me/search-history only with auth resolved and
\* both present, with that token.
C20_ResolvingIsBlockingGate ==
  [][C20_GateStep]_vars

\* C20 witness: the page, mounted while the bootstrap was resolving a stored
\* credential, shows the log-in error now that the credential was rejected.
C20_Witness ==
  /\ histMounted
  /\ lastOp = "meFail" /\ bootHist = "rejected"
  /\ ~isLoading /\ user = NULL /\ token = NULL
  /\ histError = PleaseLogIn /\ HistView = "error"
  /\ histInflight = EmptyBag

\* C21: when the history service has rejected the bearer credential the page
\* shows the log-in error, as it does without a credential, and not the message
\* of a failed fetch.
C21_RejectionPromptsLogin ==
  lastOp = "histRejected" => histError = PleaseLogIn

----------------------------------------------------------------------------
(* Properties across interleavings *)

\* C22: the identity is null whenever the credential is absent, in every
\* interleaving of bootstrap, login, logout and the answers of the identity
\* service.
C22_UserImpliesToken ==
  user # NULL => token # NULL

\* C23: whenever a prediction result is displayed, the isShared of its
\* submittedDetails is that of the active variant.
C23_ResultIsOfActiveVariant ==
  ResultShown => (submittedDetails[1].isShared <=> activeFormType = "sharing")

\* C24: once bootstrap has read the store, at every suspension point the
\* in-memory token equals the value stored under "accessToken": both absent or
\* both the same string.
C24_TokenAgreesWithStore ==
  booted => token = ls

\* C24 witness: a login has just stored a new credential while the identity
\* request of another credential is still in flight.
C24_Witness ==
  /\ booted /\ lastOp = "loginOk"
  /\ token \in Tokens /\ ls = token
  /\ \E r \in BagToSet(pending) : r.kind = "me" /\ r.tok # token

\* C25: in login and logout router.push comes after every update of user, token
\* and the loading flag and after the write or removal of the store entry: in
\* no step is the push followed by one of them, and the step of login that
\* stores the credential does not push.
C25_NavigationComesLast ==
  /\ \A i, j \in 1..Len(effects) :
       (effects[i] = "push" /\ i < j) => effects[j] \notin {"setUser", "setToken", "setIsLoading", "setItem", "removeItem"}
  /\ lastOp \in {"login", "loginOk", "loginFail"} =>
       \A i \in 1..Len(effects) : effects[i] # "push"

\* C26: the submitting flag brackets the request: it is true whenever a POST
\* /predict issued by handlePredict is outstanding, and it is false once every
\* handlePredict call has run to its end (validation failed, request answered
\* or request failed).
C26_FlagBracketsRequest ==
  predLoading <=> predInflight # <<>>

\* C27: a result is held only for the current submission: a handlePredict call
\* clears predictedPrice and submittedDetails, after a failed submission no
\* result is displayed, and after a successful one the details displayed are
\* those of the submission whose response brought the price.
C27_ResultOfCurrentSubmission ==
  [][/\ lastOp' = "handlePredict" => (predictedPrice' = Null /\ submittedDetails' = Null)
     /\ lastOp' = "predictFail" => ~ResultShown'
     /\ lastOp' = "predictOk" =>
          \E i \in 1..Len(predInflight) :
            /\ predInflight' = RemoveAt(predInflight, i)
            /\ submittedDetails' = Some(predInflight[i].details)
            /\ predictedPrice' # Null]_vars

C29_NoRetryOfResolution ==
  [][LET Me(b) == BagCardinality([r \in {x \in BagToSet(b) : x.kind = "me"} |-> b[r]])
     IN  /\ lastOp' = "bootstrap" =>
               Me(pending') = Me(pending) + (IF ls # NULL THEN 1 ELSE 0)
         /\ lastOp' = "loginOk" => Me(pending') = Me(pending) + 1
         /\ lastOp' = "meFail" =>
               BagCardinality(pending') = BagCardinality(pending) - 1
         /\ (rejected # NULL /\ user = NULL /\ token = NULL
               /\ lastOp' \notin {"login", "loginOk", "loginFail"}) =>
               (user' = NULL /\ token' = NULL)]_vars

\* C30: Resolving is not a resting state: once bootstrap has run and every
\* response of every login, signup and logout has been processed, the loading
\* flag is false.
C30_ResolvingIsNotResting ==
  (booted /\ pending = EmptyBag) => ~isLoading

====
